---- MODULE Spec2Model ----
(***************************************************************************)
(* Model of the two cooperating services of the repository:                *)
(*   auth_server.py      register_user, login (users table, JWT issuing)   *)
(*   resource_server.py  verify_token, get_items, create_item, get_profile *)
(*                       (items table, role hierarchy)                     *)
(* Strings the code normalises (usernames) are sequences of one-character  *)
(* strings, so that strip() and lower() are computed.  Handlers are        *)
(* operators from (table, request, clock) to (response, table); the        *)
(* actions apply them to the state.                                        *)
(***************************************************************************)
EXTENDS Integers, Sequences, FiniteSets, TLC

VARIABLES users,   \* auth_server users table, rows in rowid order
          items,   \* resource_server items table, rows in rowid order
          now,     \* the wall clock, in seconds (time.time(), CURRENT_TIMESTAMP)
          token,   \* the token the client holds from its last successful login
          last,    \* the response of the last request handled
          inflight \* the register requests being handled, by worker thread

vars == <<users, items, now, token, last, inflight>>

----------------------------------------------------------------------------
(* Bounds of the exploration *)

MaxTicks == 3    \* clock advances explored with the authentication service
MaxSeconds == 2  \* seconds explored with the resource service
MaxItems == 1    \* rows create_item may add to the seeded items table
MaxWorkers == 2  \* threads handling register requests at the same time

----------------------------------------------------------------------------
(* Configuration *)

JWT_SECRET == "super-secret-key"
JWT_ALGORITHM == "HS256"
JWT_EXPIRE_SECONDS == 3600

\* Mutant of VALID_ROLES: guest can be registered
VALID_ROLES_with_guest == {"guest", "user", "admin", "super_admin"}

VALID_ROLES == {"user", "admin", "super_admin"}

ROLE_HIERARCHY == [guest |-> 0, user |-> 1, admin |-> 2, super_admin |-> 3]

ACCESS_LEVELS == [public |-> 0, user |-> 1, admin |-> 2, super_admin |-> 3]

----------------------------------------------------------------------------
(* Strings *)

Chars == {"a", "A", " "}

IsSpace(c) == c = " "

RECURSIVE lstrip(_)
lstrip(s) == IF s # <<>> /\ IsSpace(Head(s)) THEN lstrip(Tail(s)) ELSE s

RECURSIVE rstrip(_)
rstrip(s) ==
    IF s # <<>> /\ IsSpace(s[Len(s)]) THEN rstrip(SubSeq(s, 1, Len(s) - 1)) ELSE s

\* Mutant of strip: trailing whitespace is kept
strip_leading(s) == lstrip(s)

\* str.strip(): leading and trailing whitespace removed
strip(s) == rstrip(lstrip(s))

lower_char(c) == IF c = "A" THEN "a" ELSE c

\* str.lower()
lower(s) == [i \in 1..Len(s) |-> lower_char(s[i])]

----------------------------------------------------------------------------
(* bcrypt: an opaque salted one-way hash *)

\* bcrypt.gensalt() draws the salt
Salts == {"salt"}

hashpw(password, salt) == [salt |-> salt, digest |-> <<salt, password>>]

checkpw(password, hashed) == hashpw(password, hashed.salt) = hashed

----------------------------------------------------------------------------
(* HTTP responses *)

HTTPException(status_code, detail) == [status |-> status_code, detail |-> detail]

Ok(body) == [status |-> 200, body |-> body]

----------------------------------------------------------------------------
(* auth_server.py *)

UsernameTaken(db, username) == \E i \in 1..Len(db) : db[i].username = username

\* INSERT INTO users: the UNIQUE constraint on username raises IntegrityError,
\* otherwise the row is appended with the next AUTOINCREMENT id.
InsertUser(db, username, password_hash, role) ==
    Append(db, [id |-> Len(db) + 1, username |-> username,
                password_hash |-> password_hash, role |-> role])

\* register_user: the response and the users table after the request
register_user(db, user_data, salt) ==
    IF user_data.username = <<>> \/ user_data.password = ""
    THEN [resp |-> HTTPException(400, "Username and password required"), db |-> db]
    ELSE LET username == lower(strip(user_data.username))
             password_hash == hashpw(user_data.password, salt)
         IN  IF user_data.role \notin VALID_ROLES
             THEN [resp |-> HTTPException(400, "Invalid role"), db |-> db]
             ELSE IF UsernameTaken(db, username)
                  THEN [resp |-> HTTPException(400, "Username already exists"),
                        db |-> db]
                  ELSE [resp |-> Ok([message |-> "registered", username |-> username]),
                        db |-> InsertUser(db, username, password_hash, user_data.role)]

\* register_user up to the INSERT: the checks and computations on the request
\* alone, giving the refusal or the parameters of the INSERT
validate_register(user_data, salt) ==
    IF user_data.username = <<>> \/ user_data.password = ""
    THEN [ok |-> FALSE, resp |-> HTTPException(400, "Username and password required")]
    ELSE LET username == lower(strip(user_data.username))
             password_hash == hashpw(user_data.password, salt)
         IN  IF user_data.role \notin VALID_ROLES
             THEN [ok |-> FALSE, resp |-> HTTPException(400, "Invalid role")]
             ELSE [ok |-> TRUE, username |-> username,
                   password_hash |-> password_hash, role |-> user_data.role]

\* Mutant of insert_user: the username column has no UNIQUE constraint
insert_user_unconstrained(db, username, password_hash, role) ==
    [resp |-> Ok([message |-> "registered", username |-> username]),
     db |-> InsertUser(db, username, password_hash, role)]

\* register_user from the INSERT on: one statement, committed or refused with
\* IntegrityError as a whole
insert_user(db, username, password_hash, role) ==
    IF UsernameTaken(db, username)
    THEN [resp |-> HTTPException(400, "Username already exists"), db |-> db]
    ELSE [resp |-> Ok([message |-> "registered", username |-> username]),
          db |-> InsertUser(db, username, password_hash, role)]

\* jose.jwt over HMAC: the signature is an opaque keyed digest of header and payload
HMAC(key, header, payload) == [key |-> key, header |-> header, payload |-> payload]

\* Mutant of jwt_encode: the payload is signed with the algorithm name as key
jwt_encode_miskeyed(payload, key, algorithm) ==
    LET header == [alg |-> algorithm, typ |-> "JWT"]
    IN  [header |-> header, payload |-> payload,
         signature |-> HMAC(algorithm, header, payload)]

\* jwt.encode(payload, key, algorithm)
jwt_encode(payload, key, algorithm) ==
    LET header == [alg |-> algorithm, typ |-> "JWT"]
    IN  [header |-> header, payload |-> payload,
         signature |-> HMAC(key, header, payload)]

FindUser(db, username) ==
    {i \in 1..Len(db) : db[i].username = username}

\* Mutant of UserNotFound: an unknown username is reported as such
UserNotFound_distinct == HTTPException(404, "User not found")

\* login, no row for the username
UserNotFound == HTTPException(401, "Invalid username or password")

\* login, bcrypt.checkpw fails
WrongPassword == HTTPException(401, "Invalid username or password")

\* Mutant of TokenPayload: the role claim is the column default, not the row's
TokenPayload_default_role(username, user_role, t) ==
    [sub |-> username,
     role |-> "user",
     iat |-> t,
     exp |-> t + JWT_EXPIRE_SECONDS,
     scope |-> "read write"]

\* login, the JWT payload built at clock reading t
TokenPayload(username, user_role, t) ==
    [sub |-> username,
     role |-> user_role,
     iat |-> t,
     exp |-> t + JWT_EXPIRE_SECONDS,
     scope |-> "read write"]

\* login: the response of the request handled at clock reading t
login(db, user_data, t) ==
    LET username == lower(strip(user_data.username))
        password == user_data.password
        rows == FindUser(db, username)
    IN  IF rows = {}
        THEN UserNotFound
        ELSE LET row == db[CHOOSE i \in rows : TRUE]
                 stored_hash == row.password_hash
                 user_role == row.role
             IN  IF ~checkpw(password, stored_hash)
                 THEN WrongPassword
                 ELSE Ok([access_token |->
                              jwt_encode(TokenPayload(username, user_role, t),
                                         JWT_SECRET, JWT_ALGORITHM),
                          token_type |-> "Bearer",
                          expires_in |-> JWT_EXPIRE_SECONDS])

----------------------------------------------------------------------------
(* resource_server.py *)

\* Names outside the username alphabet are one-symbol sequences.
System == <<"system">>
Anonymous == <<"anonymous">>
None == <<"None">>

\* The 18 sample rows of init_db, as (title, description, access_level); the
\* owner of each is "system".
sample_data ==
    << <<"Welcome Message",
         "Welcome to our platform! This is visible to everyone.", "public">>,
       <<"Company News",
         "Latest company updates and announcements", "public">>,
       <<"Public Events",
         "Upcoming public events and webinars", "public">>,
       <<"Contact Info",
         "Public contact information and office hours", "public">>,
       <<"Team Calendar",
         "Internal team calendar and schedules", "user">>,
       <<"Project Updates",
         "Current project status and milestones", "user">>,
       <<"Employee Resources",
         "HR resources and employee handbook", "user">>,
       <<"Internal Tools",
         "Links to internal development tools", "user">>,
       <<"Training Materials",
         "Employee training and onboarding docs", "user">>,
       <<"Team Chat Logs",
         "Important discussions and meeting notes", "user">>,
       <<"Server Configs",
         "Production server configuration details", "admin">>,
       <<"User Management",
         "User account management and permissions", "admin">>,
       <<"Database Backups",
         "Database backup schedules and procedures", "admin">>,
       <<"API Keys",
         "Third-party API keys and integration details", "admin">>,
       <<"System Monitoring",
         "Server monitoring and alert configurations", "admin">>,
       <<"Security Audit",
         "Confidential security audit results", "super_admin">>,
       <<"Financial Reports",
         "Sensitive financial data and reports", "super_admin">>,
       <<"Executive Decisions",
         "Board meeting minutes and strategic plans", "super_admin">> >>

\* Mutant of InsertItem: the owner column is left to "anonymous"
InsertItem_anonymous(db, title, description, owner, access_level, t) ==
    Append(db, [id |-> Len(db) + 1, title |-> title, description |-> description,
                owner |-> Anonymous, access_level |-> access_level,
                created_at |-> t])

\* INSERT INTO items: the next AUTOINCREMENT id, created_at = CURRENT_TIMESTAMP
InsertItem(db, title, description, owner, access_level, t) ==
    Append(db, [id |-> Len(db) + 1, title |-> title, description |-> description,
                owner |-> owner, access_level |-> access_level, created_at |-> t])

RECURSIVE InsertSamples(_, _, _)
InsertSamples(db, rows, t) ==
    IF rows = <<>> THEN db
    ELSE InsertSamples(InsertItem(db, Head(rows)[1], Head(rows)[2], System,
                                  Head(rows)[3], t),
                       Tail(rows), t)

\* Mutant of init_db: the sample rows are inserted on every run
init_db_unguarded(db, t) == InsertSamples(db, sample_data, t)

\* init_db: the sample rows are inserted only into an empty table
init_db(db, t) == IF Len(db) = 0 THEN InsertSamples(db, sample_data, t) ELSE db

\* dict.get(key, default)
Get(d, key, default) == IF key \in DOMAIN d THEN d[key] ELSE default

\* Mutant of get_user_role: a token without a role claim counts as a user
get_user_role_default_user(payload) == Get(payload, "role", "user")

get_user_role(payload) == Get(payload, "role", "guest")

\* Mutants of can_access: a strict comparison, and the comparison reversed
can_access_strict(user_role, required_level) ==
    Get(ROLE_HIERARCHY, user_role, 0) > Get(ACCESS_LEVELS, required_level, 0)

can_access_reversed(user_role, required_level) ==
    Get(ACCESS_LEVELS, required_level, 0) >= Get(ROLE_HIERARCHY, user_role, 0)

\* Mutant of can_access: a role reaches its own level only
can_access_exact(user_role, required_level) ==
    Get(ROLE_HIERARCHY, user_role, 0) = Get(ACCESS_LEVELS, required_level, 0)

\* Mutant of can_access: a level outside ACCESS_LEVELS is out of every reach
can_access_closed(user_role, required_level) ==
    Get(ROLE_HIERARCHY, user_role, 0) >= Get(ACCESS_LEVELS, required_level, 4)

can_access(user_role, required_level) ==
    LET user_level == Get(ROLE_HIERARCHY, user_role, 0)
        required_level_num == Get(ACCESS_LEVELS, required_level, 0)
    IN  user_level >= required_level_num

\* jose.jwt.decode(token, key, algorithms, options={"verify_aud": False}):
\* the algorithm must be allowed, the signature must be the key's digest of
\* header and payload, and the token is expired when exp < now.
\* Mutant of jwt_decode: the signature is not verified
jwt_decode_unverified(tok, key, algorithms, t) ==
    IF "exp" \in DOMAIN tok.payload /\ tok.payload.exp < t
    THEN [ok |-> FALSE, error |-> "ExpiredSignatureError"]
    ELSE [ok |-> TRUE, payload |-> tok.payload]

jwt_decode(tok, key, algorithms, t) ==
    IF tok.header.alg \notin algorithms
    THEN [ok |-> FALSE, error |-> "JWSError"]
    ELSE IF tok.signature # HMAC(key, tok.header, tok.payload)
         THEN [ok |-> FALSE, error |-> "JWSSignatureError"]
         ELSE IF "exp" \in DOMAIN tok.payload /\ tok.payload.exp < t
              THEN [ok |-> FALSE, error |-> "ExpiredSignatureError"]
              ELSE [ok |-> TRUE, payload |-> tok.payload]

\* verify_token: the payload, or 401 on any JWTError
verify_token(tok, t) ==
    LET r == jwt_decode(tok, JWT_SECRET, {JWT_ALGORITHM}, t)
    IN  IF r.ok THEN [ok |-> TRUE, payload |-> r.payload]
        ELSE [ok |-> FALSE, resp |-> HTTPException(401, "Invalid token")]

\* ORDER BY created_at DESC over rows given in rowid order; rows of equal
\* created_at stay in rowid order.
RECURSIVE OrderByCreatedAtDesc(_)
OrderByCreatedAtDesc(rows) ==
    IF rows = <<>> THEN <<>>
    ELSE LET n == Len(rows)
             r == rows[n]
             sorted == OrderByCreatedAtDesc(SubSeq(rows, 1, n - 1))
             k == Cardinality({i \in 1..Len(sorted) :
                                  sorted[i].created_at >= r.created_at})
         IN  SubSeq(sorted, 1, k) \o <<r>> \o SubSeq(sorted, k + 1, Len(sorted))

RECURSIVE Filter(_, _)
Filter(rows, user_role) ==
    IF rows = <<>> THEN <<>>
    ELSE IF can_access(user_role, Head(rows).access_level)
         THEN <<Head(rows)>> \o Filter(Tail(rows), user_role)
         ELSE Filter(Tail(rows), user_role)

\* get_items: the response to a request bearing tok at clock reading t
get_items(db, tok, t) ==
    LET v == verify_token(tok, t)
    IN  IF ~v.ok THEN v.resp
        ELSE LET username == Get(v.payload, "sub", Anonymous)
                 user_role == get_user_role(v.payload)
                 all_items == OrderByCreatedAtDesc(db)
                 accessible_items == Filter(all_items, user_role)
             IN  Ok([user |-> username,
                     role |-> user_role,
                     items |-> accessible_items,
                     total_accessible |-> Len(accessible_items),
                     total_items |-> Len(all_items)])

\* Mutant of create_item: the row is inserted before the permission check
create_item_insert_first(db, tok, item, t) ==
    LET v == verify_token(tok, t)
    IN  IF ~v.ok THEN [resp |-> v.resp, db |-> db]
        ELSE LET username == Get(v.payload, "sub", Anonymous)
                 user_role == get_user_role(v.payload)
                 inserted == InsertItem(db, item.title, item.description,
                                        username, item.access_level, t)
             IN  IF item.access_level \notin DOMAIN ACCESS_LEVELS
                 THEN [resp |-> HTTPException(400, "Invalid access level"),
                       db |-> db]
                 ELSE IF ~can_access(user_role, item.access_level)
                      THEN [resp |-> HTTPException(403, "Insufficient permissions"),
                            db |-> inserted]
                      ELSE [resp |-> Ok([message |-> "Item created",
                                         id |-> Len(db) + 1,
                                         owner |-> username,
                                         access_level |-> item.access_level]),
                            db |-> inserted]

\* Mutant of create_item: the access level is not checked against ACCESS_LEVELS
create_item_unvalidated(db, tok, item, t) ==
    LET v == verify_token(tok, t)
    IN  IF ~v.ok THEN [resp |-> v.resp, db |-> db]
        ELSE LET username == Get(v.payload, "sub", Anonymous)
                 user_role == get_user_role(v.payload)
             IN  IF ~can_access(user_role, item.access_level)
                 THEN [resp |-> HTTPException(403, "Insufficient permissions"),
                       db |-> db]
                 ELSE [resp |-> Ok([message |-> "Item created",
                                    id |-> Len(db) + 1,
                                    owner |-> username,
                                    access_level |-> item.access_level]),
                       db |-> InsertItem(db, item.title, item.description,
                                         username, item.access_level, t)]

\* create_item: the response and the items table after the request
create_item(db, tok, item, t) ==
    LET v == verify_token(tok, t)
    IN  IF ~v.ok THEN [resp |-> v.resp, db |-> db]
        ELSE LET username == Get(v.payload, "sub", Anonymous)
                 user_role == get_user_role(v.payload)
             IN  IF item.access_level \notin DOMAIN ACCESS_LEVELS
                 THEN [resp |-> HTTPException(400, "Invalid access level"),
                       db |-> db]
                 ELSE IF ~can_access(user_role, item.access_level)
                      THEN [resp |-> HTTPException(403, "Insufficient permissions"),
                            db |-> db]
                      ELSE [resp |-> Ok([message |-> "Item created",
                                         id |-> Len(db) + 1,
                                         owner |-> username,
                                         access_level |-> item.access_level]),
                            db |-> InsertItem(db, item.title, item.description,
                                              username, item.access_level, t)]

\* get_profile
get_profile(tok, t) ==
    LET v == verify_token(tok, t)
    IN  IF ~v.ok THEN v.resp
        ELSE Ok([username |-> Get(v.payload, "sub", None),
                 message |-> "This is your profile"])

----------------------------------------------------------------------------
(* Requests *)

Usernames == {<<>>, <<" ">>, <<"a">>, <<"A", " ">>, <<" ", "A">>}
Passwords == {"", "pw"}
Guesses == {"guess"}
RoleNames == {"guest", "user", "admin", "super_admin", "root"}
LevelNames == {"public", "user", "admin", "super_admin", "secret"}

UserRegister == [username : Usernames, password : Passwords, role : RoleNames]
UserLogin == [username : Usernames, password : Passwords \cup Guesses]
CreateItem == [title : {"Note"}, description : {""}, access_level : LevelNames]

\* Bearer tokens a client of the resource server may present: any claims,
\* signed with the shared secret or with another key, with the signature
\* segment altered, or unsigned.
NoClaim == [x \in {} |-> x]
Claims(s, r, e) == s @@ r @@ [iat |-> 0, exp |-> e, scope |-> "read write"]

Payloads ==
    {Claims([sub |-> <<"a">>], r, 3) :
        r \in {NoClaim} \cup {[role |-> n] : n \in RoleNames}}
    \cup {Claims(NoClaim, r, 3) : r \in {NoClaim, [role |-> "admin"]}}
    \cup {Claims([sub |-> <<"a">>], [role |-> "user"], 1)}

\* The claims a forger most wants honoured
Coveted == [sub |-> <<"a">>, role |-> "super_admin", iat |-> 0, exp |-> 1,
            scope |-> "read write"]

Altered(tok) == [tok EXCEPT !.signature = [altered |-> @]]

Tokens ==
    {jwt_encode(p, JWT_SECRET, JWT_ALGORITHM) : p \in Payloads}
    \cup {jwt_encode(Coveted, "another-key", JWT_ALGORITHM),
          jwt_encode(Coveted, JWT_SECRET, "none"),
          Altered(jwt_encode(Coveted, JWT_SECRET, JWT_ALGORITHM))}

NoToken == [none |-> TRUE]

----------------------------------------------------------------------------
(* The state machine *)

\* Worker threads of the authentication service's thread pool
Workers == 1..MaxWorkers

Idle == [pc |-> "idle"]

Init ==
    /\ users = <<>>
    /\ items = init_db(<<>>, 0)
    /\ now = 0
    /\ token = NoToken
    /\ last = [op |-> "start", resp |-> [status |-> 0]]
    /\ inflight = [w \in Workers |-> Idle]

Register(user_data, salt) ==
    LET out == register_user(users, user_data, salt)
    IN  /\ users' = out.db
        /\ last' = [op |-> "register", resp |-> out.resp]
        /\ UNCHANGED <<items, now, token, inflight>>

Login(user_data) ==
    LET resp == login(users, user_data, now)
    IN  /\ last' = [op |-> "login", resp |-> resp]
        /\ token' = IF resp.status = 200 THEN resp.body.access_token ELSE token
        /\ UNCHANGED <<users, items, now, inflight>>

GetItems(tok) ==
    /\ last' = [op |-> "get_items", resp |-> get_items(items, tok, now)]
    /\ UNCHANGED <<users, items, now, token, inflight>>

CreateItemReq(tok, item) ==
    LET out == create_item(items, tok, item, now)
    IN  /\ Len(out.db) <= Len(sample_data) + MaxItems
        /\ items' = out.db
        /\ last' = [op |-> "create_item", resp |-> out.resp]
        /\ UNCHANGED <<users, now, token, inflight>>

GetProfile(tok) ==
    /\ last' = [op |-> "get_profile", resp |-> get_profile(tok, now)]
    /\ UNCHANGED <<users, items, now, token, inflight>>

\* Clock advances counted in a reading reached by steps of 1 and
\* JWT_EXPIRE_SECONDS - 1
Elapsed(t) == (t \div (JWT_EXPIRE_SECONDS - 1)) + (t % (JWT_EXPIRE_SECONDS - 1))

Tick(d) ==
    /\ Elapsed(now) < MaxTicks
    /\ now' = now + d
    /\ UNCHANGED <<users, items, token, last, inflight>>

\* The authentication service, and a client that presents the token it holds
RegisterStep == \E user_data \in UserRegister, salt \in Salts : Register(user_data, salt)
LoginStep == \E user_data \in UserLogin : Login(user_data)
ClientGetItems == token # NoToken /\ GetItems(token)
ClockStep == \E d \in {1, JWT_EXPIRE_SECONDS - 1} : Tick(d)

Next == RegisterStep \/ LoginStep \/ ClientGetItems \/ ClockStep

Spec == Init /\ [][Next]_vars

\* The resource service, facing any bearer token
GetItemsStep == \E tok \in Tokens : GetItems(tok)
CreateItemStep == \E tok \in Tokens, item \in CreateItem : CreateItemReq(tok, item)
GetProfileStep == \E tok \in Tokens : GetProfile(tok)
SecondStep == now < MaxSeconds /\ Tick(1)

NextRes == GetItemsStep \/ CreateItemStep \/ GetProfileStep \/ SecondStep

SpecRes == Init /\ [][NextRes]_vars

\* Both services and one client: it registers and logs in, and presents the
\* resource service the token it holds or a forged one.
ClientRegister ==
    [username : {<<>>, <<"a">>, <<"A", " ">>}, password : {"pw"},
     role : {"user", "root"}]

ClientLogin == [username : {<<"a">>}, password : {"pw", "guess"}]

Forged == jwt_encode(Coveted, "another-key", JWT_ALGORITHM)

Presented == {Forged} \cup (IF token = NoToken THEN {} ELSE {token})

ClientRegisterStep ==
    \E user_data \in ClientRegister, salt \in Salts : Register(user_data, salt)
ClientLoginStep == \E user_data \in ClientLogin : Login(user_data)
ClientListStep == \E tok \in Presented : GetItems(tok)
ClientCreateStep ==
    \E tok \in Presented, item \in CreateItem : CreateItemReq(tok, item)
ClientProfileStep == \E tok \in Presented : GetProfile(tok)

NextBoth ==
    \/ ClientRegisterStep
    \/ ClientLoginStep
    \/ ClientListStep
    \/ ClientCreateStep
    \/ ClientProfileStep
    \/ SecondStep

SpecBoth == Init /\ [][NextBoth]_vars

\* The items table from before its first initialization: resource_server.py
\* and resource_db.py each run init_db when imported, at every start; the
\* resource service answers requests once its import has run, so on a table
\* that is not empty.
InitEmpty ==
    /\ users = <<>>
    /\ items = <<>>
    /\ now = 0
    /\ token = NoToken
    /\ last = [op |-> "boot", resp |-> [status |-> 0]]
    /\ inflight = [w \in Workers |-> Idle]

\* resource_server.py is imported: the service starts
ImportResourceServer ==
    /\ items' = init_db(items, now)
    /\ last' = [op |-> "init_db", resp |-> [status |-> 0]]
    /\ UNCHANGED <<users, now, token, inflight>>

\* resource_db.py is imported or run: the same init_db on the same data.db
ImportResourceDb ==
    /\ items' = init_db(items, now)
    /\ last' = [op |-> "init_db", resp |-> [status |-> 0]]
    /\ UNCHANGED <<users, now, token, inflight>>

ServedCreateItem == items # <<>> /\ CreateItemStep

NextStore ==
    \/ ImportResourceServer
    \/ ImportResourceDb
    \/ ServedCreateItem
    \/ SecondStep

SpecStore == InitEmpty /\ [][NextStore]_vars

\* The authentication service handling register requests in parallel: each
\* worker thread runs register_user on its own request, and the threads
\* interleave at the INSERT, the handler's one access to the users table.
ConcurrentUsernames == {<<"a">>, <<"A", " ">>, <<"a", "a">>}

ConcurrentRegister ==
    [username : ConcurrentUsernames, password : {"pw"},
     role : {"guest", "user", "admin"}]

\* A worker takes a request and runs the handler up to the INSERT
Accept(w, user_data, salt) ==
    LET v == validate_register(user_data, salt)
    IN  /\ inflight[w].pc = "idle"
        /\ inflight' =
              [inflight EXCEPT ![w] =
                  IF v.ok
                  THEN [pc |-> "insert", request |-> user_data.username,
                        username |-> v.username,
                        password_hash |-> v.password_hash, role |-> v.role]
                  ELSE [pc |-> "done", request |-> user_data.username,
                        resp |-> v.resp]]
        /\ last' = IF v.ok THEN last ELSE [op |-> "register", resp |-> v.resp]
        /\ UNCHANGED <<users, items, now, token>>

\* The worker's INSERT runs, and the handler answers
Insert(w) ==
    /\ inflight[w].pc = "insert"
    /\ LET out == insert_user(users, inflight[w].username,
                              inflight[w].password_hash, inflight[w].role)
       IN  /\ users' = out.db
           /\ inflight' = [inflight EXCEPT ![w] =
                              [pc |-> "done", request |-> inflight[w].request,
                               resp |-> out.resp]]
           /\ last' = [op |-> "register", resp |-> out.resp]
    /\ UNCHANGED <<items, now, token>>

AcceptStep ==
    \E w \in Workers, user_data \in ConcurrentRegister, salt \in Salts :
        Accept(w, user_data, salt)
InsertStep == \E w \in Workers : Insert(w)

NextConcurrent == AcceptStep \/ InsertStep

SpecConcurrent == Init /\ [][NextConcurrent]_vars

----------------------------------------------------------------------------
(* Vocabulary of the properties, stated apart from the code's tables *)

Range(seq) == {seq[i] : i \in 1..Len(seq)}

\* The rank of a role or level name: 0 to 3 in order of privilege, 0 for any
\* other name
Rank(name) ==
    CASE name = "super_admin" -> 3
      [] name = "admin" -> 2
      [] name = "user" -> 1
      [] OTHER -> 0

AccessLevelNames == {"public", "user", "admin", "super_admin"}

\* The role a token carries, guest when it carries none
RoleOf(tok) == IF "role" \in DOMAIN tok.payload THEN tok.payload.role ELSE "guest"

\* The signature segment is the shared secret's HS256 digest of the other two
ValidlySigned(tok) ==
    /\ tok.header.alg = "HS256"
    /\ tok.signature = [key |-> "super-secret-key", header |-> tok.header,
                        payload |-> tok.payload]

Unexpired(tok) == now < tok.payload.exp

\* The roles the authentication service offers
RegistrableRoles == {"user", "admin", "super_admin"}

\* The trimmed, lowercased form of a username
Trimmed(s) ==
    IF \A i \in 1..Len(s) : s[i] = " " THEN <<>>
    ELSE LET first == CHOOSE i \in 1..Len(s) :
                          s[i] # " " /\ \A j \in 1..(i - 1) : s[j] = " "
             final == CHOOSE i \in 1..Len(s) :
                          s[i] # " " /\ \A j \in (i + 1)..Len(s) : s[j] = " "
         IN  SubSeq(s, first, final)

Normalized(s) ==
    LET t == Trimmed(s)
    IN  [i \in 1..Len(t) |-> CASE t[i] = "A" -> "a" [] OTHER -> t[i]]

----------------------------------------------------------------------------
(* Properties of the resource service, under SpecRes *)

\* C1: for every validly signed, unexpired token, get_items returns exactly
\* the stored records whose level rank is at most the rank of the token's
\* role, each once; and so did the last get_items that succeeded.
NoUnauthorizedDisclosure ==
    /\ \A tok \in Tokens :
          ValidlySigned(tok) /\ Unexpired(tok) =>
              LET resp == get_items(items, tok, now)
                  allowed == {row \in Range(items) :
                                 Rank(row.access_level) <= Rank(RoleOf(tok))}
              IN  /\ resp.status = 200
                  /\ Range(resp.body.items) = allowed
                  /\ Len(resp.body.items) = Cardinality(allowed)
    /\ last.op = "get_items" /\ last.resp.status = 200 =>
          Range(last.resp.body.items) =
              {row \in Range(items) :
                  Rank(row.access_level) <= Rank(last.resp.body.role)}

\* C1 witness: a user-role listing after an item was created, with records
\* withheld
ListedForUser ==
    /\ last.op = "get_items" /\ last.resp.status = 200
    /\ last.resp.body.role = "user"
    /\ Len(items) > Len(sample_data)
    /\ last.resp.body.total_accessible < last.resp.body.total_items

\* C2: create_item with a valid token of role r and a level l of the
\* AccessLevel set succeeds iff rank(r) >= rank(l) and otherwise fails with
\* 403 leaving the table as it was; a record it inserts has level l, of rank
\* at most rank(r).
NoEscalationOnWrite ==
    \A tok \in Tokens, item \in CreateItem :
        ValidlySigned(tok) /\ Unexpired(tok)
            /\ item.access_level \in AccessLevelNames =>
            LET out == create_item(items, tok, item, now)
                permitted == Rank(RoleOf(tok)) >= Rank(item.access_level)
            IN  /\ out.resp.status = 200 <=> permitted
                /\ ~permitted => out.resp.status = 403 /\ out.db = items
                /\ permitted =>
                      /\ Len(out.db) = Len(items) + 1
                      /\ out.db[Len(out.db)].access_level = item.access_level
                      /\ Rank(out.db[Len(out.db)].access_level) <= Rank(RoleOf(tok))

\* C2 witness: after a record was created, a create_item is refused with 403
RefusedAfterCreate ==
    /\ Len(items) > Len(sample_data)
    /\ last.op = "create_item" /\ last.resp.status = 403

\* C3: a token that is not validly signed is refused with 401 by get_items,
\* create_item and get_profile, and create_item leaves the table as it was.
ForgedTokenRejected ==
    \A tok \in Tokens :
        ~ValidlySigned(tok) =>
            /\ get_items(items, tok, now).status = 401
            /\ get_profile(tok, now).status = 401
            /\ \A item \in CreateItem :
                  LET out == create_item(items, tok, item, now)
                  IN  out.resp.status = 401 /\ out.db = items

\* C3 witness: a create_item refused with 401 while no token of the clients
\* has expired, so refused for its signature
RefusedForSignature ==
    /\ last.op = "create_item" /\ last.resp.status = 401
    /\ \A tok \in Tokens : Unexpired(tok)

----------------------------------------------------------------------------
(* Properties of the authentication service and its tokens, under Spec *)

TTL == 3600

\* C4: the token the client holds is refused by the resource service at every
\* clock reading at or after its expires-at, and accepted only from its
\* issued-at on.
RefusedFromExpiry ==
    token # NoToken =>
        /\ now >= token.payload.exp => get_items(items, token, now).status = 401
        /\ get_items(items, token, now).status = 200 =>
              token.payload.iat <= now /\ now < token.payload.exp

\* C5: a token issued by login at T names a stored identity, validates to
\* that identity's username and role at every reading in [T, T+TTL), and is
\* refused at T+TTL+1; a listing that succeeded reports a stored identity.
TokenRoundTrip ==
    /\ token # NoToken =>
          LET T == token.payload.iat
              resp == get_items(items, token, now)
          IN  /\ \E i \in 1..Len(users) :
                    /\ users[i].username = token.payload.sub
                    /\ users[i].role = token.payload.role
              /\ T <= now /\ now < T + TTL =>
                    /\ resp.status = 200
                    /\ resp.body.user = token.payload.sub
                    /\ resp.body.role = token.payload.role
              /\ now = T + TTL + 1 => resp.status = 401
    /\ last.op = "get_items" /\ last.resp.status = 200 =>
          \E i \in 1..Len(users) :
              /\ users[i].username = last.resp.body.user
              /\ users[i].role = last.resp.body.role

\* C5 witness: the held token, listed with at T+TTL+1, was refused
RefusedAfterTTL ==
    /\ token # NoToken
    /\ now = token.payload.iat + TTL + 1
    /\ last.op = "get_items" /\ last.resp.status = 401

\* C6: no two stored identities have the same trimmed, lowercased username;
\* a register request whose normalized username is stored fails and leaves
\* every row as it was, with "Username already exists" when it passes the
\* input and role checks.
UsernameUnique ==
    /\ \A i, j \in 1..Len(users) :
          i # j => Normalized(users[i].username) # Normalized(users[j].username)
    /\ \A user_data \in UserRegister, salt \in Salts :
          (\E i \in 1..Len(users) :
              Normalized(users[i].username) = Normalized(user_data.username)) =>
              LET out == register_user(users, user_data, salt)
              IN  /\ out.db = users
                  /\ out.resp.status = 400
                  /\ user_data.username # <<>> /\ user_data.password # ""
                        /\ user_data.role \in RegistrableRoles =>
                        out.resp.detail = "Username already exists"

\* C6 witness: a registration was refused as a duplicate
DuplicateRefused ==
    /\ last.op = "register" /\ last.resp.status = 400
    /\ last.resp.detail = "Username already exists"
    /\ Len(users) = 2

\* C7: every stored username is non-empty, trimmed and lowercase.
UsernameNonEmpty ==
    \A i \in 1..Len(users) :
        /\ users[i].username # <<>>
        /\ users[i].username = Normalized(users[i].username)

\* C8 as stated: with a non-empty username and password, register answers
\* "Invalid role" exactly when the role is none of guest, user, admin,
\* super_admin.
InvalidRoleOutsideFour ==
    \A user_data \in UserRegister, salt \in Salts :
        user_data.username # <<>> /\ user_data.password # "" =>
            LET out == register_user(users, user_data, salt)
            IN  (out.resp.status = 400 /\ out.resp.detail = "Invalid role")
                    <=> user_data.role \notin {"guest", "user", "admin", "super_admin"}

\* C8 amended: with a non-empty username and password, register answers
\* "Invalid role" exactly when the role is none of user, admin, super_admin
\* (guest is refused like any other name), and then changes no row; each of
\* the three is accepted for a free username.
InvalidRoleOutsideThree ==
    \A user_data \in UserRegister, salt \in Salts :
        user_data.username # <<>> /\ user_data.password # "" =>
            LET out == register_user(users, user_data, salt)
                refused == out.resp.status = 400 /\ out.resp.detail = "Invalid role"
                free == \A i \in 1..Len(users) :
                            users[i].username # Normalized(user_data.username)
            IN  /\ refused <=> user_data.role \notin RegistrableRoles
                /\ refused => out.db = users
                /\ ~refused /\ free => out.resp.status = 200

\* C8 witness: a registration was refused for its role while the table
\* holds a row
RoleRefused ==
    /\ last.op = "register" /\ last.resp.status = 400
    /\ last.resp.detail = "Invalid role"
    /\ Len(users) > 0

\* The password the row's verifier was made from
Verifies(password, row) ==
    row.password_hash.digest = <<row.password_hash.salt, password>>

\* C9: login with a username that is not stored and login with a stored
\* username and a password that does not verify get the same 401 response,
\* and neither response carries a token.
NoUsernameEnumeration ==
    \A unknown, wrong \in UserLogin :
        /\ \A i \in 1..Len(users) : users[i].username # Normalized(unknown.username)
        /\ \E i \in 1..Len(users) :
              /\ users[i].username = Normalized(wrong.username)
              /\ ~Verifies(wrong.password, users[i])
        => /\ login(users, unknown, now) = login(users, wrong, now)
           /\ login(users, wrong, now).status = 401
           /\ "body" \notin DOMAIN login(users, wrong, now)

\* C9 witness: a login failed while one username is stored and another is not
LoginFailed ==
    /\ last.op = "login" /\ last.resp.status = 401
    /\ Len(users) = 1

\* C10: a login succeeds exactly when the password verifies against the row
\* stored for the normalized username, and its token then carries exactly
\* sub = that username, role = the row's role, iat = now, exp = now + 3600
\* and the fixed scope; the last login that succeeded named a stored role.
IssuedClaims ==
    /\ \A user_data \in UserLogin :
          LET resp == login(users, user_data, now)
              u == Normalized(user_data.username)
              rows == {i \in 1..Len(users) : users[i].username = u}
          IN  /\ resp.status = 200 <=>
                    \E i \in rows : Verifies(user_data.password, users[i])
              /\ resp.status = 200 =>
                    \E i \in rows :
                        /\ resp.body.access_token.payload =
                              [sub |-> u, role |-> users[i].role, iat |-> now,
                               exp |-> now + 3600, scope |-> "read write"]
                        /\ resp.body.expires_in = 3600
    /\ last.op = "login" /\ last.resp.status = 200 =>
          /\ token = last.resp.body.access_token
          /\ \E i \in 1..Len(users) :
                /\ users[i].username = token.payload.sub
                /\ users[i].role = token.payload.role

\* C10 witness: an admin logged in after the clock had advanced
AdminLoggedIn ==
    /\ last.op = "login" /\ last.resp.status = 200
    /\ token.payload.role = "admin"
    /\ token.payload.iat = now /\ now > 0

----------------------------------------------------------------------------
(* Properties of the access policy, under SpecRes *)

\* Names put to can_access: the roles and levels of the requests, and each
\* kind of name in the other's place
PolicyNames == RoleNames \cup LevelNames \cup {""}

\* C11: can_access is monotone in the role: a role of rank at least another's
\* reaches every level the other reaches; and of two validly signed, unexpired
\* tokens the one whose role has the greater or equal rank is listed every
\* record the other is listed, in the same items table.
AccessMonotone ==
    /\ \A r1, r2 \in PolicyNames, l \in PolicyNames :
          Rank(r1) >= Rank(r2) /\ can_access(r2, l) => can_access(r1, l)
    /\ LET Valid == {tok \in Tokens : ValidlySigned(tok) /\ Unexpired(tok)}
           listed == {<<RoleOf(tok), Range(get_items(items, tok, now).body.items)>> :
                         tok \in Valid}
       IN  \A l1, l2 \in listed :
               Rank(l1[1]) >= Rank(l2[1]) => l2[2] \subseteq l1[2]

\* C11 witness: an admin was listed a created record and the samples up to
\* its rank, super_admin records withheld
ListedForAdmin ==
    /\ last.op = "get_items" /\ last.resp.status = 200
    /\ last.resp.body.role = "admin"
    /\ Len(items) > Len(sample_data)
    /\ last.resp.body.total_accessible > 15
    /\ last.resp.body.total_accessible < last.resp.body.total_items

\* C12: for every pair of names, can_access answers exactly whether the rank
\* of the role is at least the rank of the level, a name outside its table
\* ranking 0, and it answers for every pair (an unknown role reaches public, a
\* user reaches an unknown level); a name in both tables has one rank; and
\* the last listing that succeeded holds the records of rank at most its role's.
PolicyIsRankComparison ==
    /\ \A r, l \in PolicyNames :
          /\ can_access(r, l) \in BOOLEAN
          /\ can_access(r, l) <=> Rank(r) >= Rank(l)
    /\ can_access("root", "public") /\ can_access("user", "secret")
    /\ \A n \in DOMAIN ROLE_HIERARCHY \cap DOMAIN ACCESS_LEVELS :
          ROLE_HIERARCHY[n] = ACCESS_LEVELS[n]
    /\ last.op = "get_items" /\ last.resp.status = 200 =>
          \A row \in Range(items) :
              row \in Range(last.resp.body.items)
                  <=> Rank(last.resp.body.role) >= Rank(row.access_level)

\* C12 witness: a token with a role outside ROLE_HIERARCHY was listed the
\* public records, a created one among them, and no other
ListedForUnknownRole ==
    /\ last.op = "get_items" /\ last.resp.status = 200
    /\ last.resp.body.role = "root"
    /\ Len(items) > Len(sample_data)
    /\ items[Len(items)] \in Range(last.resp.body.items)
    /\ \A row \in Range(last.resp.body.items) : row.access_level = "public"

----------------------------------------------------------------------------
(* Properties of the items table, under SpecRes *)

\* C13: every stored record has one of the four access levels; create_item
\* with a validly signed, unexpired token of any role, super_admin included,
\* and a level outside the four is refused with 400 "Invalid access level",
\* not with 403, and leaves the table as it was.
AccessLevelValid ==
    /\ \A row \in Range(items) : row.access_level \in AccessLevelNames
    /\ \A tok \in Tokens, item \in CreateItem :
          ValidlySigned(tok) /\ Unexpired(tok)
              /\ item.access_level \notin AccessLevelNames =>
              LET out == create_item(items, tok, item, now)
              IN  /\ out.resp = [status |-> 400, detail |-> "Invalid access level"]
                  /\ out.db = items
    /\ \E tok \in Tokens : ValidlySigned(tok) /\ RoleOf(tok) = "super_admin"
    /\ last.op = "create_item" /\ last.resp.status = 200 =>
          last.resp.body.access_level \in AccessLevelNames

\* C13 witness: after a record was created, a create_item was refused for its
\* access level
LevelRefused ==
    /\ Len(items) > Len(sample_data)
    /\ last.op = "create_item" /\ last.resp.status = 400
    /\ last.resp.detail = "Invalid access level"

\* C14: create_item that succeeds with a validly signed, unexpired token of
\* subject s and a level l appends exactly one record, of owner s and level
\* l, under an id no record had, and returns that id; every stored record is
\* listed to every validly signed, unexpired token whose role's rank is at
\* least the rank of the record's level; and the record of the last
\* create_item that succeeded is stored as the response describes it.
CreatedRecordListed ==
    /\ \A tok \in Tokens, item \in CreateItem :
          ValidlySigned(tok) /\ Unexpired(tok) /\ "sub" \in DOMAIN tok.payload =>
              LET out == create_item(items, tok, item, now)
                  new == out.db[Len(out.db)]
              IN  out.resp.status = 200 =>
                      /\ Len(out.db) = Len(items) + 1
                      /\ SubSeq(out.db, 1, Len(items)) = items
                      /\ new.owner = tok.payload.sub
                      /\ new.access_level = item.access_level
                      /\ out.resp.body.id = new.id
                      /\ \A row \in Range(items) : row.id # new.id
    /\ \A reader \in Tokens :
          ValidlySigned(reader) /\ Unexpired(reader) =>
              LET listed == Range(get_items(items, reader, now).body.items)
              IN  \A row \in Range(items) :
                      Rank(RoleOf(reader)) >= Rank(row.access_level) => row \in listed
    /\ last.op = "create_item" /\ last.resp.status = 200 =>
          \E row \in Range(items) :
              /\ row.id = last.resp.body.id
              /\ row.owner = last.resp.body.owner
              /\ row.access_level = last.resp.body.access_level

\* C14 witness: a record created by subject a at an earlier clock reading is
\* in the listing just returned
CreatedThenListed ==
    /\ Len(items) > Len(sample_data)
    /\ items[Len(items)].owner = <<"a">>
    /\ items[Len(items)].created_at < now
    /\ last.op = "get_items" /\ last.resp.status = 200
    /\ items[Len(items)] \in Range(last.resp.body.items)

----------------------------------------------------------------------------
(* Properties of concurrent registration, under SpecConcurrent *)

\* The workers whose request for the normalized username u has been answered
\* with the given status and, for a refusal, detail
Answered(u, status) ==
    {w \in Workers : /\ inflight[w].pc = "done"
                     /\ Normalized(inflight[w].request) = u
                     /\ inflight[w].resp.status = status}

\* The workers whose request for u has passed the input and role checks
Contending(u) ==
    {w \in Workers : /\ inflight[w].pc # "idle"
                     /\ Normalized(inflight[w].request) = u
                     /\ inflight[w].pc = "done" =>
                           \/ inflight[w].resp.status = 200
                           \/ inflight[w].resp.detail = "Username already exists"}

\* C15: of the register requests handled in parallel for one normalized
\* username at most one has succeeded, and once all are answered exactly one
\* has and every other was refused with "Username already exists"; no two
\* rows ever share a normalized username, each success has its one row, and
\* ids increase strictly in insertion order.  Run without interleaving, the
\* two steps of a worker are register_user.
ConcurrentRegisterOnce ==
    /\ \A u \in {Normalized(n) : n \in ConcurrentUsernames} :
          /\ Cardinality(Answered(u, 200)) <= 1
          /\ Cardinality({i \in 1..Len(users) : Normalized(users[i].username) = u})
                = Cardinality(Answered(u, 200))
          /\ Contending(u) # {} /\ (\A w \in Contending(u) : inflight[w].pc = "done") =>
                /\ Cardinality(Answered(u, 200)) = 1
                /\ \A w \in Contending(u) \ Answered(u, 200) :
                      inflight[w].resp = [status |-> 400,
                                          detail |-> "Username already exists"]
    /\ \A i, j \in 1..Len(users) : i < j => users[i].id < users[j].id
    /\ \A user_data \in ConcurrentRegister, salt \in Salts :
          LET v == validate_register(user_data, salt)
              out == register_user(users, user_data, salt)
          IN  IF v.ok
              THEN out = insert_user(users, v.username, v.password_hash, v.role)
              ELSE out = [resp |-> v.resp, db |-> users]

\* C15 witness: two requests spelling one username differently were handled
\* in parallel; one succeeded and the other was refused as a duplicate
RaceDecided ==
    \E w1, w2 \in Workers :
        /\ inflight[w1].pc = "done" /\ inflight[w2].pc = "done"
        /\ inflight[w1].request # inflight[w2].request
        /\ Normalized(inflight[w1].request) = Normalized(inflight[w2].request)
        /\ inflight[w1].resp.status = 200
        /\ inflight[w2].resp.status = 400
        /\ inflight[w2].resp.detail = "Username already exists"

----------------------------------------------------------------------------
(* Properties of the listing order, under SpecRes *)

\* C16: a listing is newest first: of any two records get_items returned,
\* the one inserted later (of the greater id) comes earlier, records created
\* at one clock reading included.
NewestFirst ==
    last.op = "get_items" /\ last.resp.status = 200 =>
        LET listed == last.resp.body.items
        IN  \A i, j \in 1..Len(listed) : i < j => listed[i].id > listed[j].id

----------------------------------------------------------------------------
(* Properties of tokens without a known role, under SpecRes *)

\* C17: a validly signed, unexpired token that carries no role claim, or a
\* role that is none of guest, user, admin, super_admin, has the least
\* privilege: get_items returns exactly the public records, create_item
\* succeeds for level public and is refused with 403, the table left as it
\* was, for user, admin and super_admin.
UnknownRoleLeastPrivilege ==
    \A tok \in Tokens :
        /\ ValidlySigned(tok) /\ Unexpired(tok)
        /\ \/ "role" \notin DOMAIN tok.payload
           \/ tok.payload.role \notin {"guest", "user", "admin", "super_admin"}
        => /\ LET resp == get_items(items, tok, now)
              IN  /\ resp.status = 200
                  /\ Range(resp.body.items) =
                        {row \in Range(items) : row.access_level = "public"}
           /\ \A item \in CreateItem :
                 LET out == create_item(items, tok, item, now)
                 IN  /\ item.access_level = "public" =>
                           /\ out.resp.status = 200
                           /\ Len(out.db) = Len(items) + 1
                           /\ out.db[Len(out.db)].access_level = "public"
                     /\ item.access_level \in {"user", "admin", "super_admin"} =>
                           /\ out.resp.status = 403
                           /\ out.db = items

\* C17 witness: a token with neither sub nor role claim (the clients' only
\* anonymous guest) was listed the public records alone, while the table
\* holds a created record
ListedWithoutRole ==
    /\ last.op = "get_items" /\ last.resp.status = 200
    /\ last.resp.body.user = Anonymous /\ last.resp.body.role = "guest"
    /\ Len(items) > Len(sample_data)
    /\ \A row \in Range(last.resp.body.items) : row.access_level = "public"
    /\ last.resp.body.total_accessible >= 4

----------------------------------------------------------------------------
(* Frame conditions on both tables, under SpecBoth *)

\* C18: in every step, the items table changes only in a create_item that
\* answers 200, which appends one record and leaves the others as they were
\* (so a create_item that fails, get_items and get_profile change nothing),
\* and the users table changes only in a register that answers 200 (so a
\* register that fails and every login change nothing).
StoreFrames ==
    [][/\ items' # items =>
             /\ last'.op = "create_item" /\ last'.resp.status = 200
             /\ Len(items') = Len(items) + 1
             /\ SubSeq(items', 1, Len(items)) = items
       /\ last'.op = "create_item" /\ last'.resp.status # 200 /\ last' # last =>
             items' = items
       /\ users' # users => last'.op = "register" /\ last'.resp.status = 200
       /\ last'.op = "login" =>
             users' = users]_vars

\* C18 witness: with a registered user and a created record, a create_item
\* was refused with 403
ForbiddenAfterCreate ==
    /\ Len(users) > 0
    /\ Len(items) > Len(sample_data)
    /\ token # NoToken
    /\ last.op = "create_item" /\ last.resp.status = 403

----------------------------------------------------------------------------
(* Properties of the initialization of the items table, under SpecStore *)

\* The rows init_db inserted
Seeded == {i \in 1..Len(items) : items[i].owner = <<"system">>}

\* C19: once the items table is not empty it holds each of the 18 sample
\* records exactly once, whatever init_db runs and create_item calls
\* followed; init_db on a table that is not empty returns it as it is, and
\* on the empty table inserts the 18.
SeededOnce ==
    /\ items # <<>> =>
          /\ Cardinality(Seeded) = 18
          /\ \A k \in 1..18 :
                Cardinality({i \in 1..Len(items) :
                                /\ items[i].title = sample_data[k][1]
                                /\ items[i].description = sample_data[k][2]
                                /\ items[i].access_level = sample_data[k][3]
                                /\ i \in Seeded}) = 1
          /\ init_db(items, now) = items
    /\ Len(init_db(<<>>, now)) = 18
    /\ last.op = "boot" <=> items = <<>>

\* C19 witness: init_db has just run on a table holding the samples and a
\* record created after them
InitDbOnCreated ==
    /\ last.op = "init_db"
    /\ Len(items) > Len(sample_data)
    /\ items[Len(items)].owner # <<"system">>

====
